---- MODULE Spec2Model ----
(***************************************************************************)
(* Model of convert-images.js: a batch run that walks a fixed table of     *)
(* tiers, files and size-specs, calls an image codec once per (file,       *)
(* size-spec) pair of every source that exists, tallies the results and    *)
(* prints a summary with the total size of the .webp files of the input    *)
(* directory.                                                              *)
(*                                                                         *)
(* File names are sequences of one-character strings so that               *)
(* String.replace, the template literal and String.endsWith are computed.  *)
(***************************************************************************)
EXTENDS Integers, Sequences, FiniteSets, TLC

VARIABLES
    dirExists,       \* the input directory exists
    dir,             \* the input directory: file name -> file content
    codecErrors,     \* the arguments for which the codec has failed
    faults,          \* missing sources and codec errors so far
    run,             \* number of the current run of the script (1 or 2)
    prev,            \* directory and tally at the end of the previous run
    pc,              \* position of processImages / of the process
    t, f, s,         \* loop positions: tier, file of the tier, size-spec of the tier
    totalConverted,
    totalFailed,
    outputName,      \* local of the size loop body
    success,         \* local of the size loop body
    inFlight,        \* codec calls started and not settled
    completed,       \* codec calls settled in this run
    calls,           \* codec calls of this run, in the order they started
    skips,           \* skip notices of this run: the file names, in order
    found,           \* files of this run that the existence check found: <<tier, file>>
    output,          \* what the summary printed: counts and total size
    error,           \* the error that escaped processImages, "none" if none did
    exitCode         \* exit status of the process, -1 while it runs

vars == <<dirExists, dir, codecErrors, faults, run, prev, pc, t, f, s,
          totalConverted, totalFailed, outputName, success, inFlight,
          completed, calls, skips, found, output, error, exitCode>>

(* Bounds of the model: missing sources plus codec errors, in the run of  *)
(* Spec and in the two runs of SpecRerun                                  *)
MaxFaults == 2
MaxRerunFaults == 1

---------------------------------------------------------------------------
(* Strings *)

\* String.prototype.startsWith at a position
MatchAt(str, pat, i) ==
    /\ i + Len(pat) - 1 <= Len(str)
    /\ \A k \in 1..Len(pat) : str[i + k - 1] = pat[k]

\* String.prototype.indexOf, 0 when there is no occurrence
IndexOf(str, pat) ==
    LET hits == {i \in 1..Len(str) : MatchAt(str, pat, i)}
    IN  IF hits = {} THEN 0 ELSE CHOOSE i \in hits : \A j \in hits : i <= j

\* String.prototype.replace with a string pattern: the first occurrence only
Replace(str, pat, rep) ==
    LET i == IndexOf(str, pat)
    IN  IF i = 0 THEN str
        ELSE SubSeq(str, 1, i - 1) \o rep \o SubSeq(str, i + Len(pat), Len(str))

\* String.prototype.endsWith
EndsWith(str, suf) ==
    /\ Len(suf) <= Len(str)
    /\ SubSeq(str, Len(str) - Len(suf) + 1, Len(str)) = suf

DotPng == <<".", "p", "n", "g">>
DotWebp == <<".", "w", "e", "b", "p">>

---------------------------------------------------------------------------
(* The configuration table *)

inputDir == "./images/blanche"

Small == <<"s", "m", "a", "l", "l">>
Medium == <<"m", "e", "d", "i", "u", "m">>
Large == <<"l", "a", "r", "g", "e">>
Thumbnail == <<"t", "h", "u", "m", "b", "n", "a", "i", "l">>

Review(d) == <<"R", "e", "v", "i", "e", "w", "-", d>> \o DotPng

config ==
    [large |->
        [files |-> << <<"0", "0", "4">> \o DotPng, <<"0", "1", "9">> \o DotPng,
                      <<"0", "2", "3">> \o DotPng, <<"0", "3", "2">> \o DotPng,
                      <<"0", "3", "7">> \o DotPng, <<"0", "6", "9">> \o DotPng,
                      <<"0", "7", "5">> \o DotPng >>,
         sizes |-> << [suffix |-> Small, width |-> 640, quality |-> 75],
                      [suffix |-> Medium, width |-> 1024, quality |-> 75],
                      [suffix |-> Large, width |-> 1920, quality |-> 80],
                      [suffix |-> Thumbnail, width |-> 400, quality |-> 70] >>],
     product |->
        [files |-> << <<"2">> \o DotPng, <<"3">> \o DotPng, <<"5">> \o DotPng >>,
         sizes |-> << [suffix |-> Small, width |-> 640, quality |-> 75],
                      [suffix |-> Medium, width |-> 1024, quality |-> 75],
                      [suffix |-> Large, width |-> 1920, quality |-> 80] >>],
     review |->
        [files |-> << Review("0"), Review("1"), Review("2"), Review("3") >>,
         sizes |-> << [suffix |-> Small, width |-> 640, quality |-> 75],
                      [suffix |-> Medium, width |-> 1024, quality |-> 75] >>]]

\* mutant: the product loop is placed before the loop of the large images
TierOrder_swapped == <<"product", "large", "review">>

\* the order of the three loops of processImages
TierOrder == <<"large", "product", "review">>

Files(ti) == config[TierOrder[ti]].files
Sizes(ti) == config[TierOrder[ti]].sizes

\* every source file name of the table
Sources == UNION {{Files(ti)[fi] : fi \in 1..Len(Files(ti))} : ti \in 1..Len(TierOrder)}

\* every (tier, file, size-spec) position of the table
Pairs == UNION {{<<ti, fi, si>> : fi \in 1..Len(Files(ti)), si \in 1..Len(Sizes(ti))} :
                    ti \in 1..Len(TierOrder)}

---------------------------------------------------------------------------
(* Helpers of the script *)

\* path.join(inputDir, name): every name of the table is a single path segment
PathJoin(d, name) == <<d, name>>

\* mutant: the extension is not removed from the base name
OutputName_keepExt(filename, size) ==
    filename \o <<"-">> \o size.suffix \o DotWebp

\* mutant: the suffix of the size-spec is left out of the name
OutputName_noSuffix(filename, size) ==
    Replace(filename, DotPng, <<>>) \o DotWebp

\* the template literal `${baseName}-${size.suffix}.webp`
OutputName(filename, size) ==
    Replace(filename, DotPng, <<>>) \o <<"-">> \o size.suffix \o DotWebp

\* mutant: the existence check always passes
ExistsSync_always(path) == TRUE

\* fs.existsSync of a path of the input directory
ExistsSync(path) == dirExists /\ path[1] = inputDir /\ path[2] \in DOMAIN dir

\* mutant: the catch block rethrows
convertImage_rethrow(outcome) == IF outcome = "ok" THEN "true" ELSE "throw"

\* convertImage: the try block returns true, the catch block returns false
convertImage(outcome) == IF outcome = "ok" THEN "true" ELSE "false"

\* fs.statSync gives the size of the file or throws
StatResults == {"ok", "unavailable"}

\* getFileSize: the formatted size, or 'N/A' from the catch block
getFileSize(stat) == IF stat = "ok" THEN "MB" ELSE "N/A"

\* mutant: an existing file is kept and the output goes to a sibling name
ToFile_keepOld(d, name, content) ==
    LET target == IF name \in DOMAIN d THEN name \o <<"~">> ELSE name
    IN  [n \in DOMAIN d \cup {target} |-> IF n = target THEN content ELSE d[n]]

\* sharp(...).toFile(outputPath): creates or overwrites the file
ToFile(d, name, content) ==
    [n \in DOMAIN d \cup {name} |-> IF n = name THEN content ELSE d[n]]

\* what the codec writes: the image of the input file, resized and re-encoded
Encoded(input, size) ==
    [kind |-> "webp", image |-> input.image, width |-> size.width, quality |-> size.quality]

\* mutant: the catch handler does not set a failure status
ExitStatus_zero(thrown) == 0

\* the exit status: process.exit(1) in the catch handler, 0 otherwise
ExitStatus(thrown) == IF thrown THEN 1 ELSE 0

---------------------------------------------------------------------------
(* The run *)

\* the image of each source file, named by the place of the file in the table
ImageOf ==
    [name \in Sources |->
        CHOOSE tf \in {<<p[1], p[2]>> : p \in Pairs} : Files(tf[1])[tf[2]] = name]

\* the content of a source file: one image per source
PngFile(name) == [kind |-> "png", image |-> ImageOf[name], width |-> 0, quality |-> 0]

NoPrev == [run |-> 0, dir |-> <<>>, calls |-> <<>>, converted |-> 0, failed |-> 0]

\* the state of a process that has just entered the first loop of processImages
Locals ==
    /\ pc = "file"
    /\ t = 1
    /\ f = 1
    /\ s = 1
    /\ totalConverted = 0
    /\ totalFailed = 0
    /\ outputName = <<>>
    /\ success = "none"
    /\ inFlight = 0
    /\ completed = 0
    /\ calls = <<>>
    /\ skips = <<>>
    /\ found = {}
    /\ output = <<>>
    /\ error = "none"
    /\ exitCode = -1

\* the directory before the first run: absent, or holding all but a few
\* sources; faults counts the sources that are missing
InitDir(maxFaults) ==
    /\ dirExists \in BOOLEAN
    /\ \E missing \in SUBSET Sources :
         /\ Cardinality(missing) <= maxFaults
         /\ dir = IF dirExists THEN [n \in Sources \ missing |-> PngFile(n)] ELSE <<>>
         /\ faults = IF dirExists THEN Cardinality(missing) ELSE 0
    /\ codecErrors = {}
    /\ run = 1
    /\ prev = NoPrev

Init == InitDir(MaxFaults) /\ Locals

InitRerun == InitDir(MaxRerunFaults) /\ Locals

filename == Files(t)[f]
inputPath == PathJoin(inputDir, filename)
size == Sizes(t)[s]

\* the arguments of the convertImage call of each pair of the table
ArgsOf ==
    [p \in Pairs |->
        <<PathJoin(inputDir, Files(p[1])[p[2]]),
          PathJoin(inputDir, OutputName(Files(p[1])[p[2]], Sizes(p[1])[p[3]])),
          Sizes(p[1])[p[3]].width, Sizes(p[1])[p[3]].quality>>]

\* the arguments of the pending convertImage call
CodecArgs == <<inputPath, PathJoin(inputDir, outputName), size.width, size.quality>>

\* the calls that have settled: those of the previous run and the earlier
\* ones of this run
Settled ==
    {prev.calls[i] : i \in 1..Len(prev.calls)} \cup {calls[i] : i \in 1..(Len(calls) - 1)}

\* the results the codec can give. It fails when the input file is not
\* there. Otherwise it is a function of its arguments: it fails where it
\* failed before, succeeds where it succeeded before, and for new arguments
\* it succeeds or (within the bound) fails
CodecOutcomes(maxFaults) ==
    IF filename \notin DOMAIN dir \/ CodecArgs \in codecErrors THEN {"error"}
    ELSE IF \E p \in Settled : ArgsOf[p] = CodecArgs THEN {"ok"}
    ELSE {"ok"} \cup (IF faults < maxFaults THEN {"error"} ELSE {})

\* the loop over the size-specs of the current file at index si: the output
\* name is computed and convertImage is called, or the loop is over and the
\* loop over the files goes on
SizeLoop(si) ==
    IF si <= Len(Sizes(t))
    THEN /\ s' = si
         /\ outputName' = OutputName(filename, Sizes(t)[si])
         /\ calls' = Append(calls, <<t, f, si>>)
         /\ inFlight' = inFlight + 1
         /\ pc' = "codec"
         /\ f' = f
    ELSE /\ s' = si
         /\ outputName' = <<>>
         /\ calls' = calls
         /\ inFlight' = inFlight
         /\ pc' = "file"
         /\ f' = f + 1

\* mutant: a skipped file is counted as a failure
SkipMissing_counted ==
    /\ pc = "file"
    /\ f <= Len(Files(t))
    /\ ~ExistsSync(inputPath)
    /\ skips' = Append(skips, filename)
    /\ f' = f + 1
    /\ totalFailed' = totalFailed + 1
    /\ UNCHANGED <<dirExists, dir, codecErrors, faults, run, prev, pc, t, s,
                   totalConverted, outputName, success, inFlight, completed,
                   calls, found, output, error, exitCode>>

\* the source does not exist: skip notice, continue with the next file
SkipMissing ==
    /\ pc = "file"
    /\ f <= Len(Files(t))
    /\ ~ExistsSync(inputPath)
    /\ skips' = Append(skips, filename)
    /\ f' = f + 1
    /\ UNCHANGED <<dirExists, dir, codecErrors, faults, run, prev, pc, t, s,
                   totalConverted, totalFailed, outputName, success, inFlight,
                   completed, calls, found, output, error, exitCode>>

\* the source exists: its size is read and logged (the text of the size is
\* not kept, only whether getFileSize threw), the loop over the size-specs
\* starts
BeginFile ==
    /\ pc = "file"
    /\ f <= Len(Files(t))
    /\ ExistsSync(inputPath)
    /\ found' = found \cup {<<t, f>>}
    /\ \E thrown \in {getFileSize(stat) = "throw" : stat \in StatResults} :
         IF thrown
         THEN /\ pc' = "thrown"
              /\ error' = "getFileSize"
              /\ UNCHANGED <<f, s, outputName, calls, inFlight>>
         ELSE /\ SizeLoop(1)
              /\ UNCHANGED error
    /\ UNCHANGED <<dirExists, dir, codecErrors, faults, run, prev, t,
                   totalConverted, totalFailed, success, completed, skips,
                   output, exitCode>>

\* the loop over the files of a tier ends: next tier, or the summary
EndTier ==
    /\ pc = "file"
    /\ f > Len(Files(t))
    /\ IF t < Len(TierOrder)
       THEN /\ t' = t + 1
            /\ f' = 1
            /\ UNCHANGED pc
       ELSE /\ pc' = "summary"
            /\ UNCHANGED <<t, f>>
    /\ UNCHANGED <<dirExists, dir, codecErrors, faults, run, prev, s,
                   totalConverted, totalFailed, outputName, success, inFlight,
                   completed, calls, skips, found, output, error, exitCode>>

\* the codec call settles and convertImage returns
CodecDone(maxFaults) ==
    /\ pc = "codec"
    /\ \E outcome \in CodecOutcomes(maxFaults) :
         /\ codecErrors' = IF outcome = "error"
                           THEN codecErrors \cup {CodecArgs}
                           ELSE codecErrors
         /\ faults' = IF outcome = "error" /\ CodecArgs \notin codecErrors
                      THEN faults + 1
                      ELSE faults
         /\ dir' = IF outcome = "ok"
                   THEN ToFile(dir, outputName, Encoded(dir[filename], size))
                   ELSE dir
         /\ LET r == convertImage(outcome)
            IN  IF r = "throw"
                THEN /\ pc' = "thrown"
                     /\ error' = "codec"
                     /\ UNCHANGED success
                ELSE /\ pc' = "tally"
                     /\ success' = r
                     /\ UNCHANGED error
    /\ inFlight' = inFlight - 1
    /\ completed' = completed + 1
    /\ UNCHANGED <<dirExists, run, prev, t, f, s, totalConverted, totalFailed,
                   outputName, calls, skips, found, output, exitCode>>

\* the success branch: the size of the output is read and logged, the pair
\* is counted as converted, the loop over the size-specs goes on
TallySuccess ==
    /\ pc = "tally"
    /\ success = "true"
    /\ \E thrown \in {getFileSize(stat) = "throw" : stat \in StatResults} :
         IF thrown
         THEN /\ pc' = "thrown"
              /\ error' = "getFileSize"
              /\ UNCHANGED <<totalConverted, f, s, outputName, calls, inFlight, success>>
         ELSE /\ totalConverted' = totalConverted + 1
              /\ success' = "none"
              /\ SizeLoop(s + 1)
              /\ UNCHANGED error
    /\ UNCHANGED <<dirExists, dir, codecErrors, faults, run, prev, t, totalFailed,
                   completed, skips, found, output, exitCode>>

\* the failure branch: the pair is counted as failed, the loop over the
\* size-specs goes on
TallyFailure ==
    /\ pc = "tally"
    /\ success = "false"
    /\ totalFailed' = totalFailed + 1
    /\ success' = "none"
    /\ SizeLoop(s + 1)
    /\ UNCHANGED <<dirExists, dir, codecErrors, faults, run, prev, t,
                   totalConverted, completed, skips, found, output, error,
                   exitCode>>

\* the counts of the summary are printed
PrintSummary ==
    /\ pc = "summary"
    /\ output' = Append(output, <<"counts", totalConverted, totalFailed>>)
    /\ pc' = "dirTotal"
    /\ UNCHANGED <<dirExists, dir, codecErrors, faults, run, prev, t, f, s,
                   totalConverted, totalFailed, outputName, success, inFlight,
                   completed, calls, skips, found, error, exitCode>>

\* the .webp files of the input directory, as readdirSync and the filter give them
webpFiles == {n \in DOMAIN dir : EndsWith(n, DotWebp)}

\* fs.readdirSync throws: the input directory does not exist
ReaddirThrows ==
    /\ pc = "dirTotal"
    /\ ~dirExists
    /\ pc' = "thrown"
    /\ error' = "readdir"
    /\ UNCHANGED <<dirExists, dir, codecErrors, faults, run, prev, t, f, s,
                   totalConverted, totalFailed, outputName, success, inFlight,
                   completed, calls, skips, found, output, exitCode>>

\* fs.statSync of one of the .webp files throws
StatThrows ==
    /\ pc = "dirTotal"
    /\ dirExists
    /\ webpFiles # {}
    /\ pc' = "thrown"
    /\ error' = "stat"
    /\ UNCHANGED <<dirExists, dir, codecErrors, faults, run, prev, t, f, s,
                   totalConverted, totalFailed, outputName, success, inFlight,
                   completed, calls, skips, found, output, exitCode>>

\* the sizes are summed and the total is printed; processImages returns.
\* The sum is kept as the set of files whose sizes it adds.
DirTotal ==
    /\ pc = "dirTotal"
    /\ dirExists
    /\ output' = Append(output, <<"total", webpFiles>>)
    /\ pc' = "returned"
    /\ UNCHANGED <<dirExists, dir, codecErrors, faults, run, prev, t, f, s,
                   totalConverted, totalFailed, outputName, success, inFlight,
                   completed, calls, skips, found, error, exitCode>>

\* the process ends: through the catch handler if the promise rejected
Exit ==
    /\ pc \in {"returned", "thrown"}
    /\ exitCode' = ExitStatus(pc = "thrown")
    /\ pc' = "exited"
    /\ UNCHANGED <<dirExists, dir, codecErrors, faults, run, prev, t, f, s,
                   totalConverted, totalFailed, outputName, success, inFlight,
                   completed, calls, skips, found, output, error>>

\* the script is started a second time on the directory the first run left
Rerun ==
    /\ pc = "exited"
    /\ run = 1
    /\ run' = 2
    /\ prev' = [run |-> run, dir |-> dir, calls |-> calls,
                converted |-> totalConverted, failed |-> totalFailed]
    /\ pc' = "file"
    /\ t' = 1
    /\ f' = 1
    /\ s' = 1
    /\ totalConverted' = 0
    /\ totalFailed' = 0
    /\ outputName' = <<>>
    /\ success' = "none"
    /\ inFlight' = 0
    /\ completed' = 0
    /\ calls' = <<>>
    /\ skips' = <<>>
    /\ found' = {}
    /\ output' = <<>>
    /\ error' = "none"
    /\ exitCode' = -1
    /\ UNCHANGED <<dirExists, dir, codecErrors, faults>>

Step(maxFaults) ==
    \/ SkipMissing
    \/ BeginFile
    \/ EndTier
    \/ CodecDone(maxFaults)
    \/ TallySuccess
    \/ TallyFailure
    \/ PrintSummary
    \/ ReaddirThrows
    \/ StatThrows
    \/ DirTotal
    \/ Exit

Next == Step(MaxFaults)

NextRerun == Step(MaxRerunFaults) \/ Rerun

Spec == Init /\ [][Next]_vars

SpecRerun == InitRerun /\ [][NextRerun]_vars

---------------------------------------------------------------------------
(* Properties *)

\* the three tier loops of the current run are over
LoopsDone ==
    /\ pc \in {"summary", "dirTotal", "returned", "thrown", "exited"}
    /\ t = Len(TierOrder)
    /\ f > Len(Files(t))

\* the (tier, file, size-spec) pairs of a set of <<tier, file>>
PairsOf(fs) == {p \in Pairs : <<p[1], p[2]>> \in fs}

\* the file name of a pair and its size-spec
FileOf(p) == Files(p[1])[p[2]]
SizeOf(p) == Sizes(p[1])[p[3]]

\* the pairs whose codec call has started in this run
Called == {calls[i] : i \in 1..Len(calls)}

\* a file name without a trailing .png
Stem(name) ==
    IF EndsWith(name, DotPng) THEN SubSeq(name, 1, Len(name) - Len(DotPng)) ELSE name

\* the output name the specification gives: {stem}-{suffix}.webp
ExpectedName(p) == Stem(FileOf(p)) \o <<"-">> \o SizeOf(p).suffix \o DotWebp

\* C1 as stated: after the three loops totalConverted + totalFailed is the
\* number of pairs of the sources the existence check found, and at every
\* point of the run it is the number of codec calls that have completed
C1_Original ==
    /\ LoopsDone => totalConverted + totalFailed = Cardinality(PairsOf(found))
    /\ totalConverted + totalFailed = completed

\* C1 amended: after the three loops totalConverted + totalFailed is the
\* number of pairs of the sources the existence check found; at every
\* earlier point it is the number of completed codec calls, or one less
\* between the completion of a codec call and the increment for that pair
C1_TallyMatchesAttempts ==
    /\ LoopsDone => totalConverted + totalFailed = Cardinality(PairsOf(found))
    /\ pc # "tally" => totalConverted + totalFailed = completed
    /\ pc = "tally" => totalConverted + totalFailed = completed - 1

C1_Witness ==
    /\ LoopsDone
    /\ totalFailed > 0
    /\ totalConverted > 0
    /\ Len(skips) > 0

\* C5: the process ends with status 0 when processImages returns, whatever
\* the number of codec failures and missing sources, and with a non-zero
\* status exactly when an error escaped processImages
C5_ExitStatus ==
    /\ pc = "exited" => (exitCode # 0 <=> error # "none")
    /\ (pc = "exited" /\ error = "none") => exitCode = 0
    /\ pc # "exited" => exitCode = -1

C5_Witness ==
    /\ pc = "exited"
    /\ exitCode = 0
    /\ totalFailed > 0
    /\ Len(skips) > 0

\* the order of the table as C8 states it
C8_Rank == [large |-> 1, product |-> 2, review |-> 3]

C8_Before(p, q) ==
    \/ C8_Rank[TierOrder[p[1]]] < C8_Rank[TierOrder[q[1]]]
    \/ /\ C8_Rank[TierOrder[p[1]]] = C8_Rank[TierOrder[q[1]]]
       /\ \/ p[2] < q[2]
          \/ p[2] = q[2] /\ p[3] < q[3]

C8_State ==
    /\ inFlight \in {0, 1}
    /\ inFlight = 1 <=> pc = "codec"
    /\ inFlight = 1 =>
         /\ completed = Len(calls) - 1
         /\ totalConverted + totalFailed = Len(calls) - 1

C8_Step ==
    calls' # calls =>
        /\ inFlight = 0
        /\ completed = Len(calls)
        /\ totalConverted' + totalFailed' = Len(calls)
        /\ Len(calls') = Len(calls) + 1
        /\ SubSeq(calls', 1, Len(calls)) = calls
        /\ calls # <<>> => C8_Before(calls[Len(calls)], calls'[Len(calls')])

\* C8: codec calls start in table order (large, product, review; files in
\* list order; size-specs in list order), a call starts only after the
\* previous one has completed and been tallied, at most one is in flight
C8_Sequential == []C8_State /\ [][C8_Step]_vars

C8_Witness ==
    /\ inFlight = 1
    /\ Len(calls) > 1
    /\ TierOrder[calls[Len(calls)][1]] = "review"
    /\ totalFailed > 0

\* the files the loops have already passed
Checked(ti, fi) == ti < t \/ (ti = t /\ fi < f)

\* a file that was checked and is not there: one notice, no call, no output
C2_State ==
    \A ti \in 1..Len(TierOrder) : \A fi \in 1..Len(Files(ti)) :
        (Checked(ti, fi) /\ Files(ti)[fi] \notin DOMAIN dir) =>
            /\ Cardinality({i \in 1..Len(skips) : skips[i] = Files(ti)[fi]}) = 1
            /\ <<ti, fi>> \notin found
            /\ \A i \in 1..Len(calls) : <<calls[i][1], calls[i][2]>> # <<ti, fi>>
            /\ \A n \in DOMAIN dir : dir[n].image # <<ti, fi>>

C2_Step ==
    (pc = "file" /\ f <= Len(Files(t)) /\ filename \notin DOMAIN dir) =>
        /\ skips' = Append(skips, filename)
        /\ UNCHANGED <<totalConverted, totalFailed, dir, calls, completed, inFlight, t>>
        /\ f' = f + 1
        /\ pc' = "file"

\* C2: a file whose source does not exist gets exactly one skip notice, no
\* codec call and no output; the skip changes neither count and goes on
\* with the next file
C2_MissingSourceSkipped == []C2_State /\ [][C2_Step]_vars

C2_Witness ==
    /\ LoopsDone
    /\ dirExists
    /\ skips = << <<"2", ".", "p", "n", "g">> >>
    /\ totalConverted + totalFailed = Cardinality(Pairs) - 3

\* no codec error escapes; after the loops every pair of a found file was
\* attempted and counted once
C3_State ==
    /\ error # "codec"
    /\ LoopsDone =>
         /\ Called = PairsOf(found)
         /\ totalFailed = Cardinality(codecErrors)
         /\ totalConverted = Len(calls) - Cardinality(codecErrors)

C3_Step ==
    /\ (pc = "codec" /\ codecErrors' # codecErrors) =>
         /\ pc' = "tally"
         /\ success' = "false"
         /\ error' = "none"
         /\ UNCHANGED <<totalConverted, totalFailed, t, f, s>>
    /\ (pc = "tally" /\ success = "false") =>
         /\ totalFailed' = totalFailed + 1
         /\ totalConverted' = totalConverted
         /\ error' = "none"
         /\ IF s < Len(Sizes(t))
            THEN pc' = "codec" /\ calls' = Append(calls, <<t, f, s + 1>>)
            ELSE pc' = "file" /\ t' = t /\ f' = f + 1

\* C3: a codec failure does not escape convertImage, adds one to
\* totalFailed and nothing to totalConverted, and every later size-spec,
\* file and tier is still attempted and counted
C3_CodecFailureIsLocal == []C3_State /\ [][C3_Step]_vars

C3_Witness ==
    /\ LoopsDone
    /\ totalFailed = 1
    /\ totalConverted = Cardinality(Pairs) - 1
    /\ \E a \in codecErrors : a[1] = PathJoin(inputDir, Files(1)[1])

\* the pairs whose codec call has returned with success in this run
Succeeded ==
    {p \in {calls[i] : i \in 1..(Len(calls) - inFlight)} : ArgsOf[p] \notin codecErrors}

ExpectedNames == [p \in Pairs |-> ExpectedName(p)]

Name004(suffix) == <<"0", "0", "4", "-">> \o suffix \o <<".", "w", "e", "b", "p">>

\* C4: every successful codec call of an existing file creates exactly one
\* output file in the input directory, named {stem}-{suffix}.webp; 004.png
\* with four successes gives 004-small, 004-medium, 004-large and
\* 004-thumbnail.webp. Stated for the call that has just returned, and for
\* every call at the end of the run.
C4_OneOutputPerSuccess ==
    /\ (pc = "tally" /\ success = "true") =>
         /\ <<t, f>> \in found
         /\ ExpectedNames[<<t, f, s>>] \in DOMAIN dir
         /\ dir[ExpectedNames[<<t, f, s>>]] = Encoded(dir[filename], size)
         /\ Cardinality(DOMAIN dir \ Sources) = totalConverted + 1
    /\ pc = "exited" =>
         LET ok == Succeeded
         IN  /\ \A p \in ok :
                  /\ <<p[1], p[2]>> \in found
                  /\ ExpectedNames[p] \in DOMAIN dir
                  /\ dir[ExpectedNames[p]] = Encoded(dir[FileOf(p)], SizeOf(p))
             /\ Cardinality(DOMAIN dir \ Sources) = Cardinality(ok)
             /\ {<<1, 1, si>> : si \in 1..4} \subseteq ok =>
                  {n \in DOMAIN dir \ Sources : dir[n].image = dir[Files(1)[1]].image}
                    = {Name004(Small), Name004(Medium), Name004(Large), Name004(Thumbnail)}

C4_Witness ==
    /\ pc = "exited"
    /\ {<<1, 1, si>> : si \in 1..4} \subseteq Succeeded
    /\ TierOrder[1] = "large"
    /\ Files(1)[1] = <<"0", "0", "4", ".", "p", "n", "g">>
    /\ Len(Sizes(1)) = 4
    /\ totalFailed > 0

\* C6 as stated: a run that has ended has printed the counts and the total
\* size of the .webp files of the directory
C6_Original ==
    pc = "exited" =>
        /\ \E i \in 1..Len(output) : output[i][1] = "counts"
        /\ \E i \in 1..Len(output) : output[i][1] = "total"

\* C7 as stated: no failing file-size read makes the run fatal
C7_Original == error \notin {"stat", "getFileSize"}

\* C9: a second run on the directory the first run left, with the same
\* sources and a deterministic codec, leaves the directory as the first run
\* left it and ends with the same totalConverted and totalFailed
C9_Idempotent ==
    run = 2 =>
        /\ dir = prev.dir
        /\ LoopsDone =>
             /\ totalConverted = prev.converted
             /\ totalFailed = prev.failed

C9_Witness ==
    /\ run = 2
    /\ LoopsDone
    /\ totalFailed = 1
    /\ totalConverted = Cardinality(Pairs) - 1

\* the output paths of the table are pairwise distinct and none is a source path
OutputPathsDistinct ==
    /\ \A p \in Pairs : \A q \in Pairs : p # q => ArgsOf[p][2] # ArgsOf[q][2]
    /\ \A p \in Pairs : \A n \in Sources : ArgsOf[p][2] # PathJoin(inputDir, n)

\* a write of the codec creates a file and changes no file that was there
C10_Step ==
    dir' # dir =>
        /\ outputName \notin DOMAIN dir
        /\ DOMAIN dir' = DOMAIN dir \cup {outputName}
        /\ \A n \in DOMAIN dir : dir'[n] = dir[n]

\* C10: within one run the output paths of distinct (tier, file, size-spec)
\* pairs are distinct and none is the path of a source, so no conversion
\* overwrites a source or the output of another conversion of the run
C10_NoOverwrite == []OutputPathsDistinct /\ [][C10_Step]_vars

C10_Witness ==
    /\ LoopsDone
    /\ Cardinality(webpFiles) = Cardinality(Pairs) - 1
    /\ Cardinality(DOMAIN dir \cap Sources) = Cardinality(Sources)

====
